---- MODULE Spec2Model ----
(***************************************************************************)
(* A model of the DC/OS Docker cluster backend (dcos_e2e/_dcos_docker.py)  *)
(* and of the node record (dcos_e2e/node.py).                              *)
(*                                                                         *)
(* One cluster instance is followed from its construction (staging, the    *)
(* retried create action) through postflight, role resolution, commands    *)
(* run on resolved nodes, and destroy.  The build tool, the container      *)
(* runtime and the remote shell are the environment: their answers are     *)
(* drawn nondeterministically.                                             *)
(*                                                                         *)
(* Texts (the bytes a process writes) are sequences of tokens; paths are   *)
(* sequences of components; a dict is a sequence of <<key, value>> pairs   *)
(* in insertion order.                                                     *)
(***************************************************************************)
EXTENDS Integers, Sequences, FiniteSets, Bags, TLC

(***************************************************************************)
(* Bounds of the model.                                                    *)
(***************************************************************************)
\* The largest total number of nodes (masters + agents + public agents).
MaxNodes == 2
\* The largest number of tokens a process writes (both streams together).
MaxTextLen == 3

(***************************************************************************)
(* Python values.                                                          *)
(***************************************************************************)
Digits == <<"0", "1", "2", "3", "4", "5", "6", "7", "8", "9">>

\* str(n) of a non-negative int: its decimal digits.
RECURSIVE IntStr(_)
IntStr(n) == IF n < 10 THEN Digits[n + 1]
             ELSE IntStr(n \div 10) \o Digits[(n % 10) + 1]

\* int(s) of a decimal string.
ParseInt(s) == CHOOSE n \in 0..99 : IntStr(n) = s

\* str(path) of an absolute pathlib.Path: the components joined by "/".
RECURSIVE PathStr(_)
PathStr(p) == IF p = <<>> THEN ""
              ELSE PathStr(SubSeq(p, 1, Len(p) - 1)) \o "/" \o p[Len(p)]

\* str(b) of a bytes object: its repr, the text between b' and '.
PyStr(b) == <<"b'">> \o b \o <<"'">>

\* Python's `sub in text` on strings.
Contains(sub, text) ==
    \E i \in 1..(Len(text) - Len(sub) + 1) :
        SubSeq(text, i, i + Len(sub) - 1) = sub

\* `key in d` of a dict.
HasKey(d, key) == \E i \in 1..Len(d) : d[i][1] = key

\* d[key] of a dict.
Lookup(d, key) == d[CHOOSE i \in 1..Len(d) : d[i][1] = key][2]

\* d[key] = value: an existing key keeps its place, a new one goes last.
SetItem(d, key, value) ==
    IF HasKey(d, key)
    THEN [i \in 1..Len(d) |-> IF d[i][1] = key THEN <<key, value>> ELSE d[i]]
    ELSE Append(d, <<key, value>>)

\* Whether path p lies under the directory base (or is base itself).
IsUnder(p, base) == Len(p) >= Len(base) /\ SubSeq(p, 1, Len(base)) = base

\* p.relative_to(base), for p under base.
RelativeTo(p, base) == SubSeq(p, Len(base) + 1, Len(p))

(***************************************************************************)
(* The disk: the directories that exist and the files with their content   *)
(* and owner.  A file owned by "root" was written by a process inside a    *)
(* container and cannot be removed by the user.                            *)
(***************************************************************************)
\* shutil.copytree(src, dst, ignore=ignore_patterns(...)).
CopyTree(d, src, dst, ignored) ==
    LET copied == {f \in DOMAIN d.files :
                      IsUnder(f, src) /\ f[Len(f)] \notin ignored}
        subdirs == {x \in d.dirs : IsUnder(x, src) /\ (x = src \/ x[Len(x)] \notin ignored)}
        target(f) == dst \o RelativeTo(f, src)
        new == [p \in {target(f) : f \in copied} |->
                   [content |-> d.files[src \o RelativeTo(p, dst)].content,
                    owner |-> "user"]]
    IN [dirs |-> d.dirs \cup {target(x) : x \in subdirs},
        files |-> new @@ d.files]

\* shutil.copyfile(src, dst).
CopyFile(d, src, dst) ==
    [d EXCEPT !.files = (dst :> [content |-> d.files[src].content,
                                 owner |-> "user"]) @@ d.files]

\* A removal that gives up at once and removes nothing.
RmTree_skipped(d, path) == d

\* shutil.rmtree(path, ignore_errors=True): what can be removed is removed,
\* a file that cannot be removed stays with the directories that hold it.
RmTree(d, path) ==
    LET stay == {f \in DOMAIN d.files :
                    IsUnder(f, path) => d.files[f].owner = "root"}
    IN [dirs |-> {x \in d.dirs :
                     IsUnder(x, path) =>
                         \E f \in stay : IsUnder(f, x) /\ IsUnder(f, path)},
        files |-> [f \in stay |-> d.files[f]]]

\* Path.exists() of a directory.
DirExists(d, path) == path \in d.dirs

(***************************************************************************)
(* The cluster backend: constants of the code.                             *)
(***************************************************************************)
\* @retry(exceptions=_ConflictingContainerError, delay=10, tries=30)
Tries == 30

\* The two conflict messages, "Conflict. The container name" and
\* "Conflict. The name", as token sequences.
conflict_error_substring == <<"Conflict. The", " container", " name">>
other_conflict_error_substring == <<"Conflict. The", " name">>

supported_storage_drivers == {"overlay", "aufs"}

(***************************************************************************)
(* The environment's inputs.                                               *)
(***************************************************************************)
\* The tokens the build tool may write when it creates the cluster: the
\* pieces of the two conflict messages.
Tokens == {"Conflict. The", " container", " name"}

\* The texts of at most n tokens.
Texts(tokens, n) == UNION {[1..k -> tokens] : k \in 0..n}

\* The exit statuses of the build tool: 0, and make's error status 2.
MakeExitCodes == {0, 2}

\* What a process does: its exit status and what it writes on each stream,
\* at most n tokens in all.
Processes(codes, tokens, n) ==
    LET streams == {oe \in Texts(tokens, n) \X Texts(tokens, n) :
                       Len(oe[1]) + Len(oe[2]) <= n}
    IN {[returncode |-> c, stdout |-> oe[1], stderr |-> oe[2]] :
           c \in codes, oe \in streams}

\* The fixed paths of the backend (DCOS_Docker_Backend's attributes).
dcos_docker_path == <<"checkout", "dcos-docker">>
generate_config_path == <<"artifacts", "dcos_generate_config.sh">>
tmp_dir_path == <<"tmp">>

\* The disk before any cluster is constructed.
InitialDisk ==
    [dirs |-> {tmp_dir_path, dcos_docker_path,
               dcos_docker_path \o <<"genconf">>,
               dcos_docker_path \o <<"include">>},
     files |->
        (dcos_docker_path \o <<"Makefile">> :>
            [content |-> "Makefile", owner |-> "user"]) @@
        (dcos_docker_path \o <<"dcos_generate_config.sh">> :>
            [content |-> "stale installer", owner |-> "user"]) @@
        (dcos_docker_path \o <<"include", "common.mk">> :>
            [content |-> "common.mk", owner |-> "user"]) @@
        (generate_config_path :>
            [content |-> "installer", owner |-> "user"]) @@
        (<<"host", "config.yaml">> :>
            [content |-> "host file", owner |-> "user"])]

\* The topologies: at least one master, at most MaxNodes nodes in all.
Topologies ==
    {t \in [masters : 1..MaxNodes, agents : 0..MaxNodes,
            public_agents : 0..MaxNodes] :
        t.masters + t.agents + t.public_agents <= MaxNodes}

\* The optional arguments and the host's storage driver.  custom_ca_key is
\* {} for None and {path} for a path.
DefaultOptions ==
    [extra_config |-> <<>>,
     custom_ca_key |-> {},
     files_to_copy_to_installer |-> <<>>,
     host_storage_driver |-> "overlay"]

OptionChoices ==
    {DefaultOptions,
     [DefaultOptions EXCEPT !.extra_config =
         <<<<"rexray_config_preset", "aws">>, <<"check_time", "false">>>>],
     [DefaultOptions EXCEPT !.custom_ca_key = {<<"host", "ca.key">>}],
     [DefaultOptions EXCEPT !.files_to_copy_to_installer =
         <<<<(<<"host", "config.yaml">>), (<<"genconf", "config.yaml">>)>>>>],
     [DefaultOptions EXCEPT !.files_to_copy_to_installer =
         <<<<(<<"host", "config.yaml">>), (<<"etc", "config.yaml">>)>>>>],
     [DefaultOptions EXCEPT !.host_storage_driver = "devicemapper"]}

\* The constructions tried: every topology in both logging modes with the
\* default options, and each option on its own with one master, not logged.
Constructions ==
    {c \in [topology : Topologies, log_output_live : BOOLEAN,
            options : OptionChoices] :
        c.options # DefaultOptions =>
            /\ c.topology = [masters |-> 1, agents |-> 0, public_agents |-> 0]
            /\ ~c.log_output_live}

\* The identifiers uuid.uuid4() may return.
UUIDs == {"4f1c"}

\* The addresses the container runtime may report for a running container.
IPs == {"172.17.0.2", "172.17.0.3"}

(***************************************************************************)
(* Exceptions.  `carries` tells whether the exception has the attributes   *)
(* returncode, stdout and stderr (a CalledProcessError has).               *)
(***************************************************************************)
NoException ==
    [type |-> "None", carries |-> FALSE,
     returncode |-> 0, stdout |-> <<>>, stderr |-> <<>>]

Exception(type) == [NoException EXCEPT !.type = type]

\* subprocess.CalledProcessError of a finished process.
CalledProcessError(completed) ==
    [type |-> "CalledProcessError", carries |-> TRUE,
     returncode |-> completed.returncode,
     stdout |-> completed.stdout, stderr |-> completed.stderr]

\* class _ConflictingContainerError(Exception), raised without arguments.
_ConflictingContainerError == Exception("_ConflictingContainerError")

(***************************************************************************)
(* The process runner (dcos_e2e/_common.py, run_subprocess).               *)
(***************************************************************************)
\* What run_subprocess captures of a finished process: with live logging the
\* error stream is merged into the output stream and stderr is empty.
run_subprocess(process, live) ==
    IF live
    THEN [returncode |-> process.returncode,
          stdout |-> process.stdout \o process.stderr,
          stderr |-> <<>>]
    ELSE process

\* No process has finished.
NoCompleted == [returncode |-> 0, stdout |-> <<>>, stderr |-> <<>>]

(***************************************************************************)
(* The state.                                                              *)
(***************************************************************************)
VARIABLES
    pc,              \* "init", "creating" (in _create_containers),
                     \* "constructed" (__init__ returned), "raised" (it raised)
    log_output_live, \* self.log_output_live
    _path,           \* self._path
    _variables,      \* self._variables
    _tries,          \* the retry decorator's remaining tries
    signature,       \* whether the last create process that failed wrote a
                     \* conflict message on a stream
    disk,            \* the directories and files on disk
    containers,      \* the container runtime: name -> reported IPAddress
                     \* ("" for a container that is not running)
    ready,           \* whether the build tool has reported the cluster ready
    destroyed,       \* whether a destroy() call has returned
    op,              \* the last step: the caller's call, or "runtime" for
                     \* a change of the container runtime
    invocations,     \* the run_subprocess calls that call made (a bag)
    failedRun,       \* what run_subprocess captured of the process whose
                     \* failure ended that call
    raised,          \* the exception that call raised, or NoException
    nodes,           \* the Nodes the caller holds: the set the last
                     \* resolution that returned has returned
    queries,         \* the names that call asked the container runtime for
    reading,         \* a role property being read: the arguments of _nodes
                     \* and its local `nodes`, between two of its queries
    completed,       \* the CompletedProcess that call returned
    call,            \* what the caller passed to that call, where its
                     \* results do not show it
    peers,           \* two instances constructed side by side: for each its
                     \* position, _path, _variables and remaining tries
    holder,          \* the peer whose build tool holds the transient
                     \* container name both need (0: nobody)
    conflicts,       \* for each peer, the create calls it has lost to the
                     \* holder of that name
    child,           \* the ssh process popen_as_root started
    handle,          \* the Popen object the caller got: "held", "discarded"
    beat             \* flips with each step the child runs

vars == <<pc, log_output_live, _path, _variables, _tries, signature, disk,
          containers,
          ready, destroyed, op, invocations, failedRun, raised, nodes, queries, completed,
          call, reading, peers, holder, conflicts, child, handle, beat>>

\* The state of the two side-by-side constructions, and of a streamed command.
pairvars == <<peers, holder, conflicts>>

streamvars == <<child, handle, beat>>

\* No call whose arguments are recorded.
NoCall == [kind |-> "none"]

\* No role property is being read.
NoReading == [container_base_name |-> "", num_nodes |-> 0, nodes |-> {}]

\* The two peers.
Peers == {1, 2}

\* A peer before its construction, and no child process.
NoPeer ==
    [pc |-> "init", random |-> "", _path |-> <<>>, _variables |-> <<>>,
     _tries |-> 0]

NoChild == [state |-> "none", args |-> <<>>, endless |-> FALSE]

fields == <<log_output_live, _path, _variables>>

Init ==
    /\ pc = "init"
    /\ log_output_live = FALSE
    /\ _path = <<>>
    /\ _variables = <<>>
    /\ _tries = 0
    /\ signature = FALSE
    /\ disk = InitialDisk
    /\ containers = <<>>
    /\ ready = FALSE
    /\ destroyed = FALSE
    /\ op = "none"
    /\ invocations = EmptyBag
    /\ failedRun = NoCompleted
    /\ raised = NoException
    /\ nodes = {}
    /\ queries = <<>>
    /\ completed = NoCompleted
    /\ call = NoCall
    /\ reading = NoReading
    /\ peers = [i \in Peers |-> NoPeer]
    /\ holder = 0
    /\ conflicts = [i \in Peers |-> 0]
    /\ child = NoChild
    /\ handle = "none"
    /\ beat = 0

\* The caller holds a constructed instance and has taken the result of its
\* last call: it can make the next one.
Callable == pc = "constructed" /\ op = "idle"

\* The caller takes the result of the call that has ended.
Return ==
    /\ pc = "constructed"
    /\ op # "idle"
    /\ reading = NoReading
    /\ op' = "idle"
    /\ invocations' = EmptyBag
    /\ failedRun' = NoCompleted
    /\ raised' = NoException
    /\ queries' = <<>>
    /\ completed' = NoCompleted
    /\ call' = NoCall
    /\ UNCHANGED <<pairvars, streamvars, reading>>
    /\ UNCHANGED <<pc, fields, _tries, signature, disk, containers, ready,
                   destroyed, nodes>>

(***************************************************************************)
(* DCOS_Docker.__init__: staging and the parameter set.                    *)
(***************************************************************************)
\* The scalars the configurations are made of, in the order of Python's
\* str comparison (by code point), which is the order yaml.dump sorts by.
YamlOrder ==
    <<"", "0", "1", "10", "2", "FALSE", "False", "NULL", "Null", "TRUE",
      "True", "a", "aws", "b", "c", "check_time",
      "cluster_docker_credentials_enabled", "false", "key", "no", "null",
      "off", "on", "rexray_config_preset", "true", "value", "x", "y",
      "yes", "z", "~">>

\* The place of a scalar in that order.
YamlRank(s) == CHOOSE i \in 1..Len(YamlOrder) : YamlOrder[i] = s

\* The strings the YAML resolver would read back as a bool, a null or an int:
\* yaml.dump writes such a str in single quotes.
YamlResolvedAsOther ==
    {"yes", "Yes", "YES", "no", "No", "NO", "true", "True", "TRUE",
     "false", "False", "FALSE", "on", "On", "ON", "off", "Off", "OFF",
     "~", "null", "Null", "NULL", ""} \cup {IntStr(n) : n \in 0..99}

\* A str key or value as yaml.dump writes it.
YamlScalar(s) == IF s \in YamlResolvedAsOther THEN "'" \o s \o "'" ELSE s

\* One entry of a block mapping: `key: value`, and for the empty key, which
\* is no simple key, the explicit form `? ''` and `: value` on two lines.
YamlEntry(key, value) ==
    IF key = ""
    THEN "? " \o YamlScalar(key) \o "\n: " \o YamlScalar(value) \o "\n"
    ELSE YamlScalar(key) \o ": " \o YamlScalar(value) \o "\n"

\* yaml.dump(data, default_flow_style=False) of a flat, non-empty mapping of
\* str to str (the code calls it only `if extra_config:`): one entry per
\* key, the keys sorted.
RECURSIVE YamlDump(_)
YamlDump(data) ==
    IF data = <<>> THEN ""
    ELSE LET first == CHOOSE i \in 1..Len(data) :
                          \A j \in 1..Len(data) :
                              YamlRank(data[i][1]) <= YamlRank(data[j][1])
             rest == [k \in 1..(Len(data) - 1) |->
                         IF k < first THEN data[k] ELSE data[k + 1]]
         IN YamlEntry(data[first][1], data[first][2]) \o YamlDump(rest)

\* A loop that removes the staged directory when a destination is refused.
RECURSIVE CopyInstallerFiles_cleanup(_, _, _)
CopyInstallerFiles_cleanup(d, path, items) ==
    IF items = <<>> THEN [disk |-> d, ok |-> TRUE]
    ELSE LET host_path == items[1][1]
             installer_path == items[1][2]
         IN IF ~IsUnder(installer_path, <<"genconf">>)
            THEN [disk |-> RmTree(d, path), ok |-> FALSE]
            ELSE LET relative_installer_path ==
                         RelativeTo(installer_path, <<"genconf">>)
                     destination_path ==
                         path \o <<"genconf">> \o relative_installer_path
                 IN CopyInstallerFiles_cleanup(
                        CopyFile(d, host_path, destination_path),
                        path, Tail(items))

\* A loop that checks the destinations and copies nothing.
RECURSIVE CopyInstallerFiles_skipped(_, _, _)
CopyInstallerFiles_skipped(d, path, items) ==
    IF items = <<>> THEN [disk |-> d, ok |-> TRUE]
    ELSE IF ~IsUnder(items[1][2], <<"genconf">>)
    THEN [disk |-> d, ok |-> FALSE]
    ELSE CopyInstallerFiles_skipped(d, path, Tail(items))

\* The loop over files_to_copy_to_installer: the disk after it, and whether
\* relative_to('/genconf') raised ValueError on the way.
RECURSIVE CopyInstallerFiles(_, _, _)
CopyInstallerFiles(d, path, items) ==
    IF items = <<>> THEN [disk |-> d, ok |-> TRUE]
    ELSE LET host_path == items[1][1]
             installer_path == items[1][2]
         IN IF ~IsUnder(installer_path, <<"genconf">>)
            THEN [disk |-> d, ok |-> FALSE]
            ELSE LET relative_installer_path ==
                         RelativeTo(installer_path, <<"genconf">>)
                     destination_path ==
                         path \o <<"genconf">> \o relative_installer_path
                 IN CopyInstallerFiles(
                        CopyFile(d, host_path, destination_path),
                        path, Tail(items))

\* The working directory of the instance with identifier random.
WorkingPath(random) == tmp_dir_path \o <<"dcos-docker-" \o random>>

\* A prefix without the instance's identifier.
CtrPrefix_without_identifier(role, random) == "dcos-" \o role \o "-"

\* The container-name prefix of a role ("master", "agent", "public-agent").
CtrPrefix(role, random) == "dcos-" \o role \o "-" \o random \o "-"

\* self._variables as __init__ leaves it.
Variables(c, random) ==
    LET docker_storage_driver ==
            IF c.options.host_storage_driver \in supported_storage_drivers
            THEN c.options.host_storage_driver
            ELSE "aufs"
        base == <<
            <<"DOCKER_STORAGEDRIVER", docker_storage_driver>>,
            <<"MESOS_SYSTEMD_ENABLE_SUPPORT", "false">>,
            <<"MASTERS", IntStr(c.topology.masters)>>,
            <<"AGENTS", IntStr(c.topology.agents)>>,
            <<"PUBLIC_AGENTS", IntStr(c.topology.public_agents)>>,
            <<"MASTER_CTR", CtrPrefix("master", random)>>,
            <<"AGENT_CTR", CtrPrefix("agent", random)>>,
            <<"PUBLIC_AGENT_CTR", CtrPrefix("public-agent", random)>> >>
        extra == IF c.options.extra_config # <<>>
                 THEN SetItem(base, "EXTRA_GENCONF_CONFIG",
                              YamlDump(c.options.extra_config))
                 ELSE base
    IN IF c.options.custom_ca_key # {}
       THEN LET custom_ca_key == CHOOSE k \in c.options.custom_ca_key : TRUE
                master_mount ==
                    "-v " \o PathStr(custom_ca_key) \o ":" \o
                    "/var/lib/dcos/pki/tls/CA/private/custom_ca.key"
            IN SetItem(extra, "MASTER_MOUNTS", master_mount)
       ELSE extra

\* __init__ up to the call of _create_containers.
Construct ==
    /\ pc = "init"
    /\ \E c \in Constructions, random \in UUIDs :
        LET path == WorkingPath(random)
            tree == CopyTree(disk, dcos_docker_path, path,
                             {"dcos_generate_config.sh"})
            installer == CopyFile(tree, generate_config_path,
                                  path \o <<"dcos_generate_config.sh">>)
            staged == CopyInstallerFiles(
                          installer, path,
                          c.options.files_to_copy_to_installer)
        IN /\ log_output_live' = c.log_output_live
           /\ call' = [kind |-> "__init__", construction |-> c]
           /\ _path' = path
           /\ disk' = staged.disk
           /\ IF staged.ok
              THEN /\ _variables' = Variables(c, random)
                   /\ pc' = "creating"
                   /\ _tries' = Tries
                   /\ raised' = NoException
              ELSE /\ _variables' = <<>>
                   /\ pc' = "raised"
                   /\ _tries' = 0
                   /\ raised' = Exception("ValueError")
    /\ op' = "__init__"
    /\ invocations' = EmptyBag
    /\ UNCHANGED <<pairvars, streamvars, reading>>
    /\ UNCHANGED <<signature, containers, ready, destroyed, failedRun, nodes,
                   queries, completed>>

(***************************************************************************)
(* DCOS_Docker._make and the create action.                                *)
(***************************************************************************)
\* A _make that derives the parameters anew on every attempt: the container
\* names carry the number of tries that remain.
_make_per_attempt(target) ==
    [args |-> <<"make">> \o
              [i \in 1..Len(_variables) |->
                  _variables[i][1] \o "=" \o _variables[i][2] \o
                  IntStr(_tries)] \o
              <<target>>,
     cwd |-> PathStr(_path),
     log_output_live |-> log_output_live]

\* A _make that passes the parameters to the create action only.
_make_parameters_for_all_only(target) ==
    [args |-> IF target = "all"
              THEN <<"make">> \o
                   [i \in 1..Len(_variables) |->
                       _variables[i][1] \o "=" \o _variables[i][2]] \o
                   <<target>>
              ELSE <<"make", target>>,
     cwd |-> PathStr(_path),
     log_output_live |-> log_output_live]

\* The run_subprocess call _make(target) makes: `make KEY=VALUE ... target`
\* in the working directory.
_make(target) ==
    [args |-> <<"make">> \o
              [i \in 1..Len(_variables) |->
                  _variables[i][1] \o "=" \o _variables[i][2]] \o
              <<target>>,
     cwd |-> PathStr(_path),
     log_output_live |-> log_output_live]

\* A _create_containers that looks for the conflict in stderr alone.
_create_containers_stderr_only(done) ==
    IF done.returncode = 0 THEN NoException
    ELSE LET exc == CalledProcessError(done)
             stderr == PyStr(exc.stderr)
             conflict == \/ Contains(conflict_error_substring, stderr)
                         \/ Contains(other_conflict_error_substring, stderr)
         IN IF conflict THEN _ConflictingContainerError ELSE exc

\* One call of the undecorated _create_containers, given what run_subprocess
\* captured: the exception it raises, NoException when it returns.
_create_containers(done) ==
    IF done.returncode = 0 THEN NoException
    ELSE LET exc == CalledProcessError(done)
             stderr == PyStr(exc.stderr) \o PyStr(exc.stdout)
             conflict == \/ Contains(conflict_error_substring, stderr)
                         \/ Contains(other_conflict_error_substring, stderr)
         IN IF conflict THEN _ConflictingContainerError ELSE exc

\* A retry decorator that gives up with one try to spare.
Retries_one_fewer(exc, tries) ==
    /\ exc.type = "_ConflictingContainerError"
    /\ tries - 1 > 1

\* A retry decorator that counts one try too many.
Retries_once_more(exc, tries) ==
    /\ exc.type = "_ConflictingContainerError"
    /\ tries # 0

\* The retry decorator after a call raised exc with `tries` tries remaining:
\* whether it calls again.
Retries(exc, tries) ==
    /\ exc.type = "_ConflictingContainerError"
    /\ tries - 1 # 0

\* The names of the containers the build tool manages for the parameters.
RoleNames(prefix_key, count_key) ==
    {Lookup(_variables, prefix_key) \o IntStr(i) :
        i \in 1..ParseInt(Lookup(_variables, count_key))}

ClusterNames ==
    RoleNames("MASTER_CTR", "MASTERS") \cup
    RoleNames("AGENT_CTR", "AGENTS") \cup
    RoleNames("PUBLIC_AGENT_CTR", "PUBLIC_AGENTS")

\* The target of a build-tool invocation: its last argument.
Target(invocation) == invocation.args[Len(invocation.args)]

(***************************************************************************)
(* The build tool (the environment).                                       *)
(***************************************************************************)
\* Every container of the cluster exists and is running.
Healthy ==
    \A name \in ClusterNames :
        name \in DOMAIN containers /\ containers[name] \in IPs

\* The build tool can only succeed where its Makefile is.
HasMakefile == (_path \o <<"Makefile">>) \in DOMAIN disk.files

\* What `make ... target` may do in the working directory: `all` writes at
\* most MaxTextLen tokens, the other targets at most one line.  `postflight`
\* cannot succeed unless every container runs, and does succeed on a ready
\* cluster.
CreateRuns == Processes(MakeExitCodes, Tokens, MaxTextLen)
ShortRuns == Processes(MakeExitCodes, {"make: output"}, 1)

MakeProcesses(target) ==
    LET runs == IF target = "all" THEN CreateRuns ELSE ShortRuns
        may_succeed == HasMakefile /\ (target = "postflight" => Healthy)
        may_fail == ~(target = "postflight" /\ ready)
    IN {p \in runs : IF p.returncode = 0 THEN may_succeed ELSE may_fail}

\* The disk after a successful `make all`: the key pair is generated, and a
\* process in a container may have left a file the user cannot remove.
AfterMakeAll(d, rootfile) ==
    LET key == (_path \o <<"include", "ssh", "id_rsa">>) :>
                   [content |-> "private key", owner |-> "user"]
        left == (_path \o <<"genconf", "state">>) :>
                   [content |-> "state", owner |-> "root"]
    IN [dirs |-> d.dirs \cup {_path \o <<"include", "ssh">>},
        files |-> IF rootfile THEN left @@ key @@ d.files
                  ELSE key @@ d.files]

\* What an invocation of the build tool that exited with returncode may
\* leave behind: the containers, the disk, and whether the cluster is ready.
ToolEffects(invocation, returncode) ==
    IF returncode # 0
    THEN {[containers |-> containers, disk |-> disk, ready |-> ready]}
    ELSE CASE Target(invocation) = "all" ->
                {[containers |-> ips @@ containers,
                  disk |-> AfterMakeAll(disk, rootfile),
                  ready |-> FALSE] :
                    ips \in [ClusterNames -> IPs], rootfile \in BOOLEAN}
           [] Target(invocation) = "postflight" ->
                {[containers |-> containers, disk |-> disk, ready |-> TRUE]}
           [] Target(invocation) = "clean" ->
                {[containers |->
                      [n \in DOMAIN containers \ ClusterNames |->
                          containers[n]],
                  disk |-> disk,
                  ready |-> FALSE]}
           [] OTHER ->
                {[containers |-> containers, disk |-> disk, ready |-> ready]}

\* Someone else stops or removes a container of the cluster: between two
\* calls of the caller, or between two queries of a role property being read.
RuntimeChange ==
    /\ Callable \/ reading # NoReading
    /\ \E name \in DOMAIN containers :
        \/ containers' = [n \in DOMAIN containers \ {name} |-> containers[n]]
        \/ /\ containers[name] # ""
           /\ containers' = [containers EXCEPT ![name] = ""]
    /\ ready' = FALSE
    /\ IF reading = NoReading
       THEN /\ op' = "runtime"
            /\ invocations' = EmptyBag
            /\ failedRun' = NoCompleted
            /\ raised' = NoException
            /\ queries' = <<>>
            /\ completed' = NoCompleted
            /\ call' = NoCall
       ELSE UNCHANGED <<op, invocations, failedRun, raised, queries,
                        completed, call>>
    /\ UNCHANGED <<pairvars, streamvars, reading>>
    /\ UNCHANGED <<pc, fields, _tries, signature, disk, destroyed, nodes>>

(***************************************************************************)
(* The create action under the retry decorator.                            *)
(***************************************************************************)
\* Whether a text holds one of the two conflict messages.
HasSignature(text) ==
    \/ Contains(<<"Conflict. The", " container", " name">>, text)
    \/ Contains(<<"Conflict. The", " name">>, text)

\* One attempt: _make('all') and the handling of its failure.
CreateAttempt ==
    /\ pc = "creating"
    /\ \E invocation \in {_make("all")} :
          \E process \in MakeProcesses(Target(invocation)) :
           LET done == run_subprocess(process, invocation.log_output_live)
               exc == _create_containers(done)
           IN /\ invocations' = invocations (+) SetToBag({invocation})
              /\ \E effect \in ToolEffects(invocation, done.returncode) :
                    /\ containers' = effect.containers
                    /\ disk' = effect.disk
                    /\ ready' = effect.ready
              /\ signature' = (/\ done.returncode # 0
                                /\ \/ HasSignature(done.stdout)
                                   \/ HasSignature(done.stderr))
              /\ IF exc = NoException
                 THEN /\ pc' = "constructed"
                      /\ _tries' = 0
                      /\ raised' = NoException
                      /\ failedRun' = NoCompleted
                 ELSE IF Retries(exc, _tries)
                 THEN /\ pc' = "creating"
                      /\ _tries' = _tries - 1
                      /\ raised' = NoException
                      /\ failedRun' = failedRun
                 ELSE /\ pc' = "raised"
                      /\ _tries' = 0
                      /\ raised' = exc
                      /\ failedRun' = done
    /\ call' = NoCall
    /\ UNCHANGED <<pairvars, streamvars, reading>>
    /\ UNCHANGED <<fields, destroyed, op, nodes, queries, completed>>

(***************************************************************************)
(* DCOS_Docker.postflight and DCOS_Docker.destroy.                         *)
(***************************************************************************)
\* What a _make call does once the caller is past construction: a missing
\* working directory makes run_subprocess raise FileNotFoundError before any
\* process runs; a process that exits nonzero makes it raise
\* CalledProcessError.
MakeOutcome(invocation, process) ==
    IF ~DirExists(disk, _path)
    THEN [returncode |-> 2, raised |-> Exception("FileNotFoundError"),
          failed |-> NoCompleted]
    ELSE LET done == run_subprocess(process, invocation.log_output_live)
         IN IF done.returncode = 0
            THEN [returncode |-> 0, raised |-> NoException,
                  failed |-> NoCompleted]
            ELSE [returncode |-> done.returncode,
                  raised |-> CalledProcessError(done), failed |-> done]

\* A postflight that runs the build tool twice.
postflight_twice ==
    /\ Callable
    /\ \E invocation \in {_make("postflight")} :
          /\ invocations' = SetToBag({invocation}) (+) SetToBag({invocation})
          /\ \E process \in MakeProcesses(Target(invocation)) :
               LET out == MakeOutcome(invocation, process)
               IN /\ raised' = out.raised
                  /\ failedRun' = out.failed
                  /\ \E effect \in ToolEffects(invocation, out.returncode) :
                       /\ containers' = effect.containers
                       /\ disk' = effect.disk
                       /\ ready' = effect.ready
    /\ op' = "postflight"
    /\ queries' = <<>>
    /\ completed' = NoCompleted
    /\ call' = NoCall
    /\ UNCHANGED <<pairvars, streamvars, reading>>
    /\ UNCHANGED <<pc, fields, _tries, signature, destroyed, nodes>>

postflight ==
    /\ Callable
    /\ \E invocation \in {_make("postflight")} :
          /\ invocations' = SetToBag({invocation})
          /\ \E process \in MakeProcesses(Target(invocation)) :
               LET out == MakeOutcome(invocation, process)
               IN /\ raised' = out.raised
                  /\ failedRun' = out.failed
                  /\ \E effect \in ToolEffects(invocation, out.returncode) :
                       /\ containers' = effect.containers
                       /\ disk' = effect.disk
                       /\ ready' = effect.ready
    /\ op' = "postflight"
    /\ queries' = <<>>
    /\ completed' = NoCompleted
    /\ call' = NoCall
    /\ UNCHANGED <<pairvars, streamvars, reading>>
    /\ UNCHANGED <<pc, fields, _tries, signature, destroyed, nodes>>

\* A destroy that removes the working directory and leaves the containers.
destroy_rmtree_only ==
    /\ Callable
    /\ disk' = RmTree(disk, _path)
    /\ destroyed' = TRUE
    /\ raised' = NoException
    /\ failedRun' = NoCompleted
    /\ op' = "destroy"
    /\ invocations' = EmptyBag
    /\ queries' = <<>>
    /\ completed' = NoCompleted
    /\ call' = NoCall
    /\ UNCHANGED <<pairvars, streamvars, reading>>
    /\ UNCHANGED <<pc, fields, _tries, signature, containers, ready, nodes>>

\* A destroy that removes the working directory whatever `make clean` did.
destroy_call_always_removes(c) ==
    /\ Callable
    /\ \E invocation \in {_make("clean")} :
          /\ invocations' = SetToBag({invocation})
          /\ \E process \in MakeProcesses(Target(invocation)) :
               LET out == MakeOutcome(invocation, process)
               IN /\ raised' = out.raised
                  /\ failedRun' = out.failed
                  /\ \E effect \in ToolEffects(invocation, out.returncode) :
                       /\ containers' = effect.containers
                       /\ ready' = effect.ready
                       /\ disk' = RmTree(effect.disk, _path)
                       /\ destroyed' = IF out.raised = NoException
                                       THEN TRUE ELSE destroyed
    /\ op' = "destroy"
    /\ queries' = <<>>
    /\ completed' = NoCompleted
    /\ call' = c
    /\ UNCHANGED <<pairvars, streamvars, reading>>
    /\ UNCHANGED <<pc, fields, _tries, signature, nodes>>

\* A destroy whose rmtree raises when it cannot remove a file.
destroy_call_removal_raises(c) ==
    /\ Callable
    /\ \E invocation \in {_make("clean")} :
          /\ invocations' = SetToBag({invocation})
          /\ \E process \in MakeProcesses(Target(invocation)) :
               LET out == MakeOutcome(invocation, process)
               IN /\ failedRun' = out.failed
                  /\ \E effect \in ToolEffects(invocation, out.returncode) :
                       /\ containers' = effect.containers
                       /\ ready' = effect.ready
                       /\ IF out.raised = NoException
                          THEN /\ disk' = RmTree(effect.disk, _path)
                               /\ destroyed' =
                                      ~DirExists(RmTree(effect.disk, _path),
                                                 _path)
                               /\ raised' =
                                      IF DirExists(RmTree(effect.disk, _path),
                                                   _path)
                                      THEN Exception("PermissionError")
                                      ELSE NoException
                          ELSE /\ disk' = effect.disk
                               /\ destroyed' = destroyed
                               /\ raised' = out.raised
    /\ op' = "destroy"
    /\ queries' = <<>>
    /\ completed' = NoCompleted
    /\ call' = c
    /\ UNCHANGED <<pairvars, streamvars, reading>>
    /\ UNCHANGED <<pc, fields, _tries, signature, nodes>>

\* The body of destroy(), for a caller whose arguments are c.
destroy_call(c) ==
    /\ Callable
    /\ \E invocation \in {_make("clean")} :
          /\ invocations' = SetToBag({invocation})
          /\ \E process \in MakeProcesses(Target(invocation)) :
               LET out == MakeOutcome(invocation, process)
               IN /\ raised' = out.raised
                  /\ failedRun' = out.failed
                  /\ \E effect \in ToolEffects(invocation, out.returncode) :
                       /\ containers' = effect.containers
                       /\ ready' = effect.ready
                       /\ IF out.raised = NoException
                          THEN /\ disk' = RmTree(effect.disk, _path)
                               /\ destroyed' = TRUE
                          ELSE /\ disk' = effect.disk
                               /\ destroyed' = destroyed
    /\ op' = "destroy"
    /\ queries' = <<>>
    /\ completed' = NoCompleted
    /\ call' = c
    /\ UNCHANGED <<pairvars, streamvars, reading>>
    /\ UNCHANGED <<pc, fields, _tries, signature, nodes>>

destroy == destroy_call(NoCall)

(***************************************************************************)
(* Cluster.__exit__ (dcos_e2e/cluster.py): the end of the block that holds *)
(* the cluster.                                                            *)
(***************************************************************************)
\* An __exit__ that leaves the cluster alone whenever the caller opted out.
__exit___opted_out_wins ==
    /\ Callable
    /\ \E error \in BOOLEAN, destroy_on_error \in BOOLEAN :
         LET c == [kind |-> "__exit__", error |-> error,
                   destroy_on_error |-> destroy_on_error]
         IN IF destroy_on_error
            THEN destroy_call(c)
            ELSE /\ call' = c
                 /\ op' = "__exit__"
                 /\ invocations' = EmptyBag
                 /\ failedRun' = NoCompleted
                 /\ raised' = NoException
                 /\ queries' = <<>>
                 /\ completed' = NoCompleted
                 /\ UNCHANGED <<pairvars, streamvars, reading>>
                 /\ UNCHANGED <<pc, fields, _tries, signature, disk,
                                containers, ready, destroyed, nodes>>

\* The block ends, with an error of the caller's or without: destroy() is
\* called unless there was an error and destroy_on_error is false.
__exit__ ==
    /\ Callable
    /\ \E error \in BOOLEAN, destroy_on_error \in BOOLEAN :
         LET c == [kind |-> "__exit__", error |-> error,
                   destroy_on_error |-> destroy_on_error]
         IN IF ~error \/ destroy_on_error
            THEN destroy_call(c)
            ELSE /\ call' = c
                 /\ op' = "__exit__"
                 /\ invocations' = EmptyBag
                 /\ failedRun' = NoCompleted
                 /\ raised' = NoException
                 /\ queries' = <<>>
                 /\ completed' = NoCompleted
                 /\ UNCHANGED <<pairvars, streamvars, reading>>
                 /\ UNCHANGED <<pc, fields, _tries, signature, disk,
                                containers, ready, destroyed, nodes>>

(***************************************************************************)
(* Node (dcos_e2e/node.py).                                                *)
(***************************************************************************)
\* Node(ip_address, ssh_key_path).  The class defines neither __eq__ nor
\* __hash__: two Nodes are equal only if they are the same object, which
\* `id` stands for.
Node(id, ip_address, ssh_key_path) ==
    [id |-> id, ip_address |-> ip_address, _ssh_key_path |-> ssh_key_path]

\* The `export KEY='VALUE'`, `&&` pairs of compose_ssh_command.
RECURSIVE Exports(_)
Exports(env) ==
    IF env = <<>> THEN <<>>
    ELSE <<"export " \o env[1][1] \o "='" \o env[1][2] \o "'", "&&">> \o
         Exports(Tail(env))

\* A composition that puts the command before the exports.
compose_ssh_command_args_first(self, args, env) ==
    LET command == args \o Exports(env)
    IN <<"ssh", "-q", "-o", "StrictHostKeyChecking=no",
         "-i", PathStr(self._ssh_key_path),
         "-l", "root",
         "-o", "PreferredAuthentications=publickey",
         self.ip_address>> \o command

\* Node.compose_ssh_command(args, env).
compose_ssh_command(self, args, env) ==
    LET command == Exports(env) \o args
    IN <<"ssh", "-q", "-o", "StrictHostKeyChecking=no",
         "-i", PathStr(self._ssh_key_path),
         "-l", "root",
         "-o", "PreferredAuthentications=publickey",
         self.ip_address>> \o command

\* The node and the caller's args and env after compose_ssh_command: env is
\* copied by dict(env or {}) and only read, args is added to the new list
\* `command` and not changed, and no attribute of self is assigned.
compose_ssh_command_leaves(self, args, env) ==
    [self |-> self, args |-> args, env |-> env]

(***************************************************************************)
(* DCOS_Docker._nodes and the role properties.                             *)
(***************************************************************************)
\* A loop that stops one node early.
_nodes_turn_short(container_base_name, num_nodes, found, asked) ==
    IF Cardinality(found) < num_nodes - 1
    THEN LET container_name ==
                 container_base_name \o IntStr(Cardinality(found) + 1)
             now == Append(asked, container_name)
         IN IF container_name \notin DOMAIN containers
            THEN [done |-> TRUE, nodes |-> {}, queries |-> now,
                  raised |-> Exception("NotFound")]
            ELSE IF containers[container_name] \notin IPs
            THEN [done |-> TRUE, nodes |-> {}, queries |-> now,
                  raised |-> Exception("AddressValueError")]
            ELSE LET grown ==
                         found \cup
                             {Node(Len(now), containers[container_name],
                                   _path \o <<"include", "ssh", "id_rsa">>)}
                 IN [done |-> ~(Cardinality(grown) < num_nodes - 1),
                     nodes |-> grown, queries |-> now,
                     raised |-> NoException]
    ELSE [done |-> TRUE, nodes |-> found, queries |-> asked,
          raised |-> NoException]

\* A loop that swallows a missing container and returns what it has.
_nodes_turn_partial(container_base_name, num_nodes, found, asked) ==
    IF Cardinality(found) < num_nodes
    THEN LET container_name ==
                 container_base_name \o IntStr(Cardinality(found) + 1)
             now == Append(asked, container_name)
         IN IF container_name \notin DOMAIN containers
            THEN [done |-> TRUE, nodes |-> found, queries |-> now,
                  raised |-> NoException]
            ELSE IF containers[container_name] \notin IPs
            THEN [done |-> TRUE, nodes |-> {}, queries |-> now,
                  raised |-> Exception("AddressValueError")]
            ELSE LET grown ==
                         found \cup
                             {Node(Len(now), containers[container_name],
                                   _path \o <<"include", "ssh", "id_rsa">>)}
                 IN [done |-> ~(Cardinality(grown) < num_nodes),
                     nodes |-> grown, queries |-> now,
                     raised |-> NoException]
    ELSE [done |-> TRUE, nodes |-> found, queries |-> asked,
          raised |-> NoException]

\* A loop that asks for the first name before it looks at the count.
_nodes_turn_asks_first(container_base_name, num_nodes, found, asked) ==
    IF Cardinality(found) < num_nodes \/ asked = <<>>
    THEN LET container_name ==
                 container_base_name \o IntStr(Cardinality(found) + 1)
             now == Append(asked, container_name)
         IN IF container_name \notin DOMAIN containers
            THEN [done |-> TRUE, nodes |-> {}, queries |-> now,
                  raised |-> Exception("NotFound")]
            ELSE IF containers[container_name] \notin IPs
            THEN [done |-> TRUE, nodes |-> {}, queries |-> now,
                  raised |-> Exception("AddressValueError")]
            ELSE LET grown ==
                         found \cup
                             {Node(Len(now), containers[container_name],
                                   _path \o <<"include", "ssh", "id_rsa">>)}
                 IN [done |-> ~(Cardinality(grown) < num_nodes),
                     nodes |-> grown, queries |-> now,
                     raised |-> NoException]
    ELSE [done |-> TRUE, nodes |-> found, queries |-> asked,
          raised |-> NoException]

\* One turn of the loop of _nodes, with the nodes found and the names asked
\* so far: the loop test, one request to the container runtime and what
\* follows it up to the next request.  `done` says that _nodes has ended:
\* with the set it returns, or with the exception client.containers.get
\* (docker's NotFound) or IPv4Address (AddressValueError) raised.
_nodes_turn(container_base_name, num_nodes, found, asked) ==
    IF Cardinality(found) < num_nodes
    THEN LET container_name ==
                 container_base_name \o IntStr(Cardinality(found) + 1)
             now == Append(asked, container_name)
         IN IF container_name \notin DOMAIN containers
            THEN [done |-> TRUE, nodes |-> {}, queries |-> now,
                  raised |-> Exception("NotFound")]
            ELSE IF containers[container_name] \notin IPs
            THEN [done |-> TRUE, nodes |-> {}, queries |-> now,
                  raised |-> Exception("AddressValueError")]
            ELSE LET grown ==
                         found \cup
                             {Node(Len(now), containers[container_name],
                                   _path \o <<"include", "ssh", "id_rsa">>)}
                 IN [done |-> ~(Cardinality(grown) < num_nodes),
                     nodes |-> grown, queries |-> now,
                     raised |-> NoException]
    ELSE [done |-> TRUE, nodes |-> found, queries |-> asked,
          raised |-> NoException]

\* The loop of _nodes run through while the container runtime does not
\* change: what a read would give in the present state of the runtime.
RECURSIVE _nodes_loop(_, _, _, _)
_nodes_loop(container_base_name, num_nodes, found, asked) ==
    LET turn == _nodes_turn(container_base_name, num_nodes, found, asked)
    IN IF turn.done
       THEN [nodes |-> turn.nodes, queries |-> turn.queries,
             raised |-> turn.raised]
       ELSE _nodes_loop(container_base_name, num_nodes, turn.nodes,
                        turn.queries)

_nodes(container_base_name, num_nodes) ==
    _nodes_loop(container_base_name, num_nodes, {}, <<>>)

\* What a turn of the loop leaves: the names asked, and either the read in
\* progress or, when _nodes has ended, the set the caller now holds or the
\* exception.
AfterTurn(container_base_name, num_nodes, turn) ==
    /\ raised' = turn.raised
    /\ queries' = turn.queries
    /\ IF turn.done
       THEN /\ reading' = NoReading
            /\ nodes' = IF turn.raised = NoException
                        THEN turn.nodes ELSE nodes
       ELSE /\ reading' = [container_base_name |-> container_base_name,
                           num_nodes |-> num_nodes, nodes |-> turn.nodes]
            /\ nodes' = nodes

\* A role property is read: _nodes runs up to its first request's answer,
\* and to its end if it needs no second one.
Resolve(role, prefix_key, count_key) ==
    /\ Callable
    /\ LET container_base_name == Lookup(_variables, prefix_key)
           num_nodes == ParseInt(Lookup(_variables, count_key))
       IN AfterTurn(container_base_name, num_nodes,
                    _nodes_turn(container_base_name, num_nodes, {}, <<>>))
    /\ op' = role
    /\ invocations' = EmptyBag
    /\ failedRun' = NoCompleted
    /\ completed' = NoCompleted
    /\ call' = NoCall
    /\ UNCHANGED <<pairvars, streamvars>>
    /\ UNCHANGED <<pc, fields, _tries, signature, disk, containers, ready, destroyed>>

\* The read in progress goes on with its next request.
NextQuery ==
    /\ reading # NoReading
    /\ AfterTurn(reading.container_base_name, reading.num_nodes,
                 _nodes_turn(reading.container_base_name, reading.num_nodes,
                             reading.nodes, queries))
    /\ UNCHANGED <<op, invocations, failedRun, completed, call>>
    /\ UNCHANGED <<pairvars, streamvars>>
    /\ UNCHANGED <<pc, fields, _tries, signature, disk, containers, ready, destroyed>>

masters == Resolve("masters", "MASTER_CTR", "MASTERS")

agents == Resolve("agents", "AGENT_CTR", "AGENTS")

public_agents == Resolve("public_agents", "PUBLIC_AGENT_CTR", "PUBLIC_AGENTS")

(***************************************************************************)
(* Node.run_as_root.                                                       *)
(***************************************************************************)
\* The remote shell reaches a node if a running container has its address.
Reachable(node) ==
    \E name \in DOMAIN containers : containers[name] = node.ip_address

\* What the ssh process may do: run the command on a node it reaches (exit
\* status 0, or 127 for an unknown command), and fail with 255 on a node it
\* does not reach.
RemoteRuns == Processes({0, 127}, {"sh: output"}, 1)
UnreachedRuns == Processes({255}, {"ssh: output"}, 1)

SshProcesses(node) == IF Reachable(node) THEN RemoteRuns ELSE UnreachedRuns

\* The commands the caller runs, and their environments.
Commands == {<<"echo", "hello">>}
Environments == {<<>>, <<<<"LANG", "C">>>>}

\* The log_output_live argument of a run_as_root call: <<>> when the caller
\* leaves it out, <<b>> when the caller passes b.
LiveArguments == {<<>>, <<TRUE>>, <<FALSE>>}

\* The value the parameter has in the call: its default is False.
LiveArgument(given) == IF given = <<>> THEN FALSE ELSE given[1]

\* A run_as_root that does not pass log_output_live on.
run_as_root_flag_dropped ==
    /\ Callable
    /\ \E node \in nodes, args \in Commands, given \in LiveArguments,
          env \in Environments :
        \E ssh_args \in {compose_ssh_command(node, args, env)},
           live \in {LiveArgument(given)} :
           /\ invocations' = SetToBag({[args |-> ssh_args, cwd |-> "",
                                        log_output_live |-> FALSE]})
           /\ \E process \in SshProcesses(node) :
                LET done == run_subprocess(process, FALSE)
                IN /\ call' = [kind |-> "run_as_root", process |-> process,
                               given |-> given, log_output_live |-> live]
                   /\ IF done.returncode = 0
                      THEN /\ completed' = done
                           /\ raised' = NoException
                           /\ failedRun' = NoCompleted
                      ELSE /\ completed' = NoCompleted
                           /\ raised' = CalledProcessError(done)
                           /\ failedRun' = done
    /\ op' = "run_as_root"
    /\ queries' = <<>>
    /\ UNCHANGED <<pairvars, streamvars, reading>>
    /\ UNCHANGED <<pc, fields, _tries, signature, disk, containers, ready, destroyed,
                   nodes>>

\* A run_as_root that logs as the cluster instance does.
run_as_root_instance_flag ==
    /\ Callable
    /\ \E node \in nodes, args \in Commands, given \in LiveArguments,
          env \in Environments :
        \E ssh_args \in {compose_ssh_command(node, args, env)},
           live \in {LiveArgument(given)} :
           /\ invocations' = SetToBag({[args |-> ssh_args, cwd |-> "",
                                        log_output_live |-> log_output_live]})
           /\ \E process \in SshProcesses(node) :
                LET done == run_subprocess(process, log_output_live)
                IN /\ call' = [kind |-> "run_as_root", process |-> process,
                               given |-> given, log_output_live |-> live]
                   /\ IF done.returncode = 0
                      THEN /\ completed' = done
                           /\ raised' = NoException
                           /\ failedRun' = NoCompleted
                      ELSE /\ completed' = NoCompleted
                           /\ raised' = CalledProcessError(done)
                           /\ failedRun' = done
    /\ op' = "run_as_root"
    /\ queries' = <<>>
    /\ UNCHANGED <<pairvars, streamvars, reading>>
    /\ UNCHANGED <<pc, fields, _tries, signature, disk, containers, ready, destroyed,
                   nodes>>

\* node.run_as_root(args, log_output_live, env) on a node the caller holds.
run_as_root ==
    /\ Callable
    /\ \E node \in nodes, args \in Commands, given \in LiveArguments,
          env \in Environments :
        \E ssh_args \in {compose_ssh_command(node, args, env)},
           live \in {LiveArgument(given)} :
           /\ invocations' = SetToBag({[args |-> ssh_args, cwd |-> "",
                                        log_output_live |-> live]})
           /\ \E process \in SshProcesses(node) :
                LET done == run_subprocess(process, live)
                IN /\ call' = [kind |-> "run_as_root", process |-> process,
                               given |-> given, log_output_live |-> live]
                   /\ IF done.returncode = 0
                      THEN /\ completed' = done
                           /\ raised' = NoException
                           /\ failedRun' = NoCompleted
                      ELSE /\ completed' = NoCompleted
                           /\ raised' = CalledProcessError(done)
                           /\ failedRun' = done
    /\ op' = "run_as_root"
    /\ queries' = <<>>
    /\ UNCHANGED <<pairvars, streamvars, reading>>
    /\ UNCHANGED <<pc, fields, _tries, signature, disk, containers, ready, destroyed,
                   nodes>>

Next ==
    \/ Construct
    \/ CreateAttempt
    \/ Return
    \/ RuntimeChange
    \/ postflight
    \/ destroy
    \/ __exit__
    \/ masters
    \/ agents
    \/ public_agents
    \/ NextQuery
    \/ run_as_root

Spec == Init /\ [][Next]_vars

(***************************************************************************)
(* Two instances constructed side by side (two DCOS_Docker(...) calls that *)
(* share the disk and the container runtime).  While the build tool of one *)
(* peer runs `make all` it holds a transient container name that the build *)
(* tool of the other needs as well; the other's `make all` then fails with *)
(* the conflict message.                                                   *)
(***************************************************************************)
\* The main instance's variables that the peers leave alone.
apart == <<pc, fields, _tries, signature, ready, destroyed, op, invocations,
           failedRun, raised, nodes, queries, completed, call, reading>>

\* The identifiers uuid.uuid4() may return to the peers.
PairUUIDs == {"4f1c", "9a0e", "c27b"}

\* Cluster() without arguments: one master, one agent, one public agent.
DefaultTopology == [masters |-> 1, agents |-> 1, public_agents |-> 1]

\* The topologies of the peers: the default one, and every other one of
\* up to MaxNodes + 1 nodes, so that a peer can have two nodes of one role
\* next to a node of another.
PairTopologies ==
    {DefaultTopology} \cup
    {t \in [masters : 1..MaxNodes, agents : 0..MaxNodes,
            public_agents : 0..MaxNodes] :
        t.masters + t.agents + t.public_agents <= MaxNodes + 1}

\* The constructions of the peers: default options, not logged live.
PairConstructions ==
    [topology : PairTopologies, log_output_live : {FALSE},
     options : {DefaultOptions}]

\* What `make all` does when the other peer's build tool holds the name.
ConflictRun ==
    [returncode |-> 2, stdout |-> <<>>, stderr |-> conflict_error_substring]

CreatedRun == [returncode |-> 0, stdout |-> <<>>, stderr |-> <<>>]

\* The container names of one role of a peer, and all of a peer's names.
PeerRoleNames(i, prefix_key, count_key) ==
    {Lookup(peers[i]._variables, prefix_key) \o IntStr(n) :
        n \in 1..ParseInt(Lookup(peers[i]._variables, count_key))}

PeerNames(i) ==
    PeerRoleNames(i, "MASTER_CTR", "MASTERS") \cup
    PeerRoleNames(i, "AGENT_CTR", "AGENTS") \cup
    PeerRoleNames(i, "PUBLIC_AGENT_CTR", "PUBLIC_AGENTS")

\* The files of the disk d under a path.
FilesUnder(d, path) ==
    [f \in {g \in DOMAIN d.files : IsUnder(g, path)} |-> d.files[f]]

\* __init__ of a peer up to the call of _create_containers.
PeerConstruct ==
    \E i \in Peers :
        /\ peers[i].pc = "init"
        /\ \E c \in PairConstructions,
              random \in PairUUIDs \ {peers[j].random : j \in Peers} :
            LET path == WorkingPath(random)
                tree == CopyTree(disk, dcos_docker_path, path,
                                 {"dcos_generate_config.sh"})
                installer == CopyFile(tree, generate_config_path,
                                      path \o <<"dcos_generate_config.sh">>)
            IN /\ disk' = installer
               /\ peers' = [peers EXCEPT ![i] =
                              [pc |-> "creating", random |-> random,
                               _path |-> path,
                               _variables |-> Variables(c, random),
                               _tries |-> Tries]]
        /\ UNCHANGED <<apart, containers, holder, conflicts, streamvars>>

\* A peer's _create_containers calls _make('all').  The build tool takes the
\* name if it is free and runs on; if the other peer's holds it, it fails
\* with the conflict message, which happens fewer than Tries times to a peer.
PeerAttempt ==
    \E i \in Peers :
        /\ peers[i].pc = "creating"
        /\ IF holder = 0
           THEN /\ holder' = i
                /\ peers' = [peers EXCEPT ![i].pc = "running"]
                /\ conflicts' = conflicts
           ELSE /\ conflicts[i] < Tries - 1
                /\ LET done == run_subprocess(ConflictRun, FALSE)
                       exc == _create_containers(done)
                   IN peers' =
                        IF Retries(exc, peers[i]._tries)
                        THEN [peers EXCEPT ![i]._tries = @ - 1]
                        ELSE [peers EXCEPT ![i].pc = "raised",
                                           ![i]._tries = 0]
                /\ conflicts' = [conflicts EXCEPT ![i] = @ + 1]
                /\ holder' = holder
        /\ UNCHANGED <<apart, disk, containers, streamvars>>

\* The build tool of the peer that holds the name finishes: its key pair is
\* written and the name is free again (the containers it leaves running are
\* not followed here).
PeerFinish ==
    \E i \in Peers :
        /\ peers[i].pc = "running"
        /\ holder = i
        /\ LET done == run_subprocess(CreatedRun, FALSE)
               exc == _create_containers(done)
               key == (peers[i]._path \o <<"include", "ssh", "id_rsa">>) :>
                          [content |-> "private key", owner |-> "user"]
           IN /\ peers' = [peers EXCEPT
                             ![i].pc = IF exc = NoException
                                       THEN "constructed" ELSE "raised",
                             ![i]._tries = 0]
              /\ disk' = [dirs |-> disk.dirs \cup
                                      {peers[i]._path \o <<"include", "ssh">>},
                          files |-> key @@ disk.files]
        /\ holder' = 0
        /\ UNCHANGED <<apart, containers, conflicts, streamvars>>

NextPair == PeerConstruct \/ PeerAttempt \/ PeerFinish

\* Both constructions go on: neither the callers nor the build tools stop.
SpecPair == Init /\ [][NextPair]_vars /\ WF_vars(NextPair)

(***************************************************************************)
(* Node.popen_as_root: a command streamed from a node.                     *)
(***************************************************************************)
\* The nodes a caller may hold, the commands it streams (one that ends by
\* itself and one that runs until it is killed), and their environments.
StreamNodes ==
    {Node(i, ip, WorkingPath(random) \o <<"include", "ssh", "id_rsa">>) :
        i \in 1..MaxNodes, ip \in IPs, random \in UUIDs}

Ending == <<"echo", "hello">>

Unending == <<"sleep", "infinity">>

StreamCommands == {Ending, Unending}

StreamEnvironments ==
    {<<>>, <<<<"LANG", "C">>>>, <<<<"LANG", "C">>, <<"TERM", "dumb">>>>}

\* The main instance's and the peers' variables, which streaming leaves alone.
aloof == <<pc, fields, _tries, signature, disk, containers, ready, destroyed,
           op, invocations, failedRun, raised, nodes, queries, completed,
           call, reading, pairvars>>

\* node.compose_ssh_command(args, env) called by itself: the caller has the
\* list it returns, and no process is started.
Compose ==
    /\ handle = "none"
    /\ child = NoChild
    /\ \E self \in StreamNodes, args \in StreamCommands,
          env \in StreamEnvironments :
        \E ssh_args \in {compose_ssh_command(self, args, env)} :
            child' = [state |-> "none", args |-> ssh_args,
                      endless |-> FALSE,
                      given |-> [self |-> self, args |-> args, env |-> env],
                      left |-> compose_ssh_command_leaves(self, args, env)]
    /\ UNCHANGED <<aloof, handle, beat>>

\* node.popen_as_root(args, env): the ssh process is started and the caller
\* holds its Popen object.
popen_as_root ==
    /\ handle = "none"
    /\ \E self \in StreamNodes, args \in StreamCommands,
          env \in StreamEnvironments :
        \E ssh_args \in {compose_ssh_command(self, args, env)} :
            child' = [state |-> "running", args |-> ssh_args,
                      endless |-> args = Unending,
                      given |-> [self |-> self, args |-> args, env |-> env],
                      left |-> compose_ssh_command_leaves(self, args, env)]
    /\ handle' = "held"
    /\ UNCHANGED <<aloof, beat>>

\* The child process runs on.
ChildRuns ==
    /\ child.state = "running"
    /\ beat' = 1 - beat
    /\ UNCHANGED <<aloof, child, handle>>

\* The command ends by itself.
ChildExits ==
    /\ child.state = "running"
    /\ ~child.endless
    /\ child' = [child EXCEPT !.state = "exited"]
    /\ UNCHANGED <<aloof, handle, beat>>

\* The caller kills the process through the Popen object it holds.
Kill ==
    /\ handle = "held"
    /\ child.state = "running"
    /\ child' = [child EXCEPT !.state = "exited"]
    /\ UNCHANGED <<aloof, handle, beat>>

\* The caller waits for a process that has ended.
Wait ==
    /\ handle = "held"
    /\ child.state = "exited"
    /\ handle' = "waited"
    /\ UNCHANGED <<aloof, child, beat>>

\* The caller drops the Popen object: popen_as_root has attached nothing to
\* it that would end the process, and Popen's finalizer does not.
Discard ==
    /\ handle = "held"
    /\ handle' = "discarded"
    /\ UNCHANGED <<aloof, child, beat>>

NextStream ==
    \/ Compose
    \/ popen_as_root
    \/ ChildRuns
    \/ ChildExits
    \/ Kill
    \/ Wait
    \/ Discard

\* The operating system lets a running process run and a process that ends
\* end; the caller is not obliged to do anything.
SpecStream ==
    Init /\ [][NextStream]_vars /\ WF_vars(ChildRuns) /\ WF_vars(ChildExits)

(***************************************************************************)
(* Properties.                                                             *)
(***************************************************************************)
RoleProperties == {"masters", "agents", "public_agents"}

\* The names P1 .. PN a role property is to resolve, in order.
ExpectedNames(role) ==
    LET keys == CASE role = "masters" -> <<"MASTER_CTR", "MASTERS">>
                  [] role = "agents" -> <<"AGENT_CTR", "AGENTS">>
                  [] OTHER -> <<"PUBLIC_AGENT_CTR", "PUBLIC_AGENTS">>
    IN [i \in 1..ParseInt(Lookup(_variables, keys[2])) |->
           Lookup(_variables, keys[1]) \o IntStr(i)]

\* What the three role properties would return now.
Resolution ==
    <<_nodes(Lookup(_variables, "MASTER_CTR"),
             ParseInt(Lookup(_variables, "MASTERS"))),
      _nodes(Lookup(_variables, "AGENT_CTR"),
             ParseInt(Lookup(_variables, "AGENTS"))),
      _nodes(Lookup(_variables, "PUBLIC_AGENT_CTR"),
             ParseInt(Lookup(_variables, "PUBLIC_AGENTS")))>>

\* C1: when the create action has failed twice with a conflict (two tries
\* are used up) and the third attempt does not fail, construction returns,
\* and it has made exactly three build-tool calls, all three the same call:
\* target `all`, the instance's working directory and logging flag, and one
\* and the same parameter list.
C1_ThirdAttemptSucceeds ==
    [][(/\ pc = "creating"
        /\ _tries = Tries - 2
        /\ pc' # "creating"
        /\ raised' = NoException)
       => /\ pc' = "constructed"
          /\ fields' = fields
          /\ \E invocation \in BagToSet(invocations') :
                /\ invocations' = (invocation :> 3)
                /\ Target(invocation) = "all"
                /\ invocation.cwd = PathStr(_path)
                /\ invocation.log_output_live = log_output_live]_vars

\* C1 witness: construction has returned after exactly three create calls.
C1_Witness ==
    /\ pc = "constructed"
    /\ op = "__init__"
    /\ BagCardinality(invocations) = 3

\* C2: one construction makes at most 30 create calls: while it is still
\* creating it has made fewer than 30 (as many as tries are used up), and a
\* construction that ends on a conflict has made exactly 30 and has raised.
C2_AtMostThirtyAttempts ==
    /\ op = "__init__" => BagCardinality(invocations) <= Tries
    /\ pc = "creating" =>
        /\ BagCardinality(invocations) < Tries
        /\ BagCardinality(invocations) = Tries - _tries
    /\ (op = "__init__" /\ pc # "creating" /\ signature) =>
        /\ pc = "raised"
        /\ raised # NoException
        /\ BagCardinality(invocations) = Tries

\* C2 witness: thirty conflicts in a row have ended the construction.
C2_Witness ==
    /\ pc = "raised"
    /\ signature
    /\ BagCardinality(invocations) = Tries

\* C3 as stated: a failed create call is followed by another one if and only
\* if its captured output or error text holds a conflict message, and a
\* failure without one is raised to the caller as the build tool's own
\* CalledProcessError.
C3_RetriedIffConflict ==
    [][/\ pc # "raised"
       /\ (pc = "creating" /\ pc' # "constructed") =>
            /\ (pc' = "creating") <=> signature'
            /\ ~signature' =>
                /\ pc' = "raised"
                /\ failedRun'.returncode # 0
                /\ raised' = CalledProcessError(failedRun')]_vars

\* C3 amended: a failed create call is followed by another one if and only
\* if its captured output or error text holds a conflict message and it was
\* not the 30th call; a failure without a conflict message is raised to the
\* caller as the build tool's own CalledProcessError, and a construction
\* that has raised takes no further step.
C3_RetriedIffConflictWithinBound ==
    [][/\ pc # "raised"
       /\ (pc = "creating" /\ pc' # "constructed") =>
            /\ (pc' = "creating") <=> (signature' /\ _tries > 1)
            /\ ~signature' =>
                /\ pc' = "raised"
                /\ failedRun'.returncode # 0
                /\ raised' = CalledProcessError(failedRun')]_vars

\* C3 witness: after one conflict, the second create call failed without a
\* conflict message and its CalledProcessError reached the caller.
C3_Witness ==
    /\ pc = "raised"
    /\ ~signature
    /\ raised.type = "CalledProcessError"
    /\ BagCardinality(invocations) = 2

\* C4 as stated: whenever create, postflight or destroy ends because a
\* build-tool process failed, the exception raised carries that process's
\* exit status and its captured output and error text.
C4_FailureCarriesOutput ==
    (op \in {"__init__", "postflight", "destroy"} /\ failedRun.returncode # 0)
    => /\ raised.carries
       /\ raised.returncode = failedRun.returncode
       /\ raised.stdout = failedRun.stdout
       /\ raised.stderr = failedRun.stderr

\* A turn of the loop of _nodes: a step of a read in which the container
\* runtime stays as it is.
Turn ==
    /\ op' \in RoleProperties
    /\ op = "idle" \/ reading # NoReading
    /\ containers' = containers

\* The names asked and the nodes found by the read before a turn, and the
\* nodes found after it (those returned, if the read has ended).
AskedBefore == IF reading = NoReading THEN <<>> ELSE queries

FoundBefore == IF reading = NoReading THEN {} ELSE reading.nodes

FoundAfter == IF reading' = NoReading THEN nodes' ELSE reading'.nodes

\* C5: a role property that returns has asked for exactly P1 .. PN, in that
\* order, and returns exactly N nodes, one for each of them; the node for Pi
\* is made, in the turn that asks for Pi, from the address the container
\* runtime has for Pi in that turn, and the nodes found before are kept.
C5_ExactlyTheRequestedNodes ==
    /\ [](( /\ op \in RoleProperties
            /\ reading = NoReading
            /\ raised = NoException) =>
             LET names == ExpectedNames(op)
             IN /\ Cardinality(nodes) = Len(names)
                /\ queries = names
                /\ \A i \in 1..Len(names) :
                      Cardinality({node \in nodes : node.id = i}) = 1)
    /\ [][(Turn /\ raised' = NoException /\ queries' # <<>>) =>
            LET container_name == queries'[Len(queries')]
            IN /\ container_name \in DOMAIN containers
               /\ FoundAfter =
                      FoundBefore \cup
                          {Node(Len(queries'), containers[container_name],
                                _path \o <<"include", "ssh", "id_rsa">>)}
               /\ Cardinality(FoundAfter) = Len(queries')]_vars

\* C5 witness: the masters of a two-master cluster have been resolved, and
\* the first was removed from the container runtime after it had answered.
C5_Witness ==
    /\ op = "masters"
    /\ reading = NoReading
    /\ raised = NoException
    /\ Cardinality(nodes) = 2
    /\ ExpectedNames("masters")[1] \notin DOMAIN containers

\* C6 as stated: the nodes a role property returns have pairwise different
\* addresses.
C6_DistinctAddresses ==
    (op \in RoleProperties /\ reading = NoReading /\ raised = NoException) =>
        \A a, b \in nodes : a # b => a.ip_address # b.ip_address

\* C7: a turn of a role property's read that asks for a name the container
\* runtime does not have ends the read with docker's NotFound: no set is
\* returned (the caller holds what it held), and a read that has raised is
\* over; the names a read has asked for are P1, P2, .. in order, none of
\* them twice.
C7_MissingContainerIsFatal ==
    /\ [][(/\ Turn
           /\ queries' # <<>>
           /\ queries'[Len(queries')] \notin DOMAIN containers) =>
            /\ raised'.type = "NotFound"
            /\ reading' = NoReading
            /\ nodes' = nodes
            /\ queries' =
                   Append(AskedBefore, queries'[Len(queries')])]_vars
    /\ [](op \in RoleProperties =>
            /\ queries = SubSeq(ExpectedNames(op), 1, Len(queries))
            /\ \A i, j \in DOMAIN queries : i # j => queries[i] # queries[j]
            /\ raised # NoException =>
                  /\ reading = NoReading
                  /\ Len(queries) >= 1)

\* C7 witness: the second master was missing when it was asked for.
C7_Witness ==
    /\ op = "masters"
    /\ reading = NoReading
    /\ raised.type = "NotFound"
    /\ Len(queries) = 2

\* C8: once destroy() has returned, a run_as_root on a node the caller
\* holds raises and returns no CompletedProcess.
C8_DestroyIsTerminalForNodes ==
    (destroyed /\ op = "run_as_root") =>
        /\ raised # NoException
        /\ completed = NoCompleted

\* C8 witness: after destroy() a command on a held node failed to connect.
C8_Witness ==
    /\ destroyed
    /\ op = "run_as_root"
    /\ raised.type = "CalledProcessError"
    /\ raised.returncode = 255

\* C9 as stated: after destroy() has returned, the working directory does
\* not exist.
C9_WorkingDirectoryGone ==
    (op = "destroy" /\ raised = NoException) => ~DirExists(disk, _path)

\* C9 amended: after destroy() has returned, nothing is left under the
\* working directory but files that could not be removed, and the directory
\* itself is gone unless it holds such a file.
C9_WorkingDirectoryGoneIfRemovable ==
    (op = "destroy" /\ raised = NoException) =>
        /\ \A f \in DOMAIN disk.files :
               IsUnder(f, _path) => disk.files[f].owner = "root"
        /\ DirExists(disk, _path) <=>
               \E f \in DOMAIN disk.files : IsUnder(f, _path)

\* C9 witness: destroy() has returned and the working directory is gone.
C9_Witness ==
    /\ op = "destroy"
    /\ raised = NoException
    /\ ~DirExists(disk, _path)

\* C10: a postflight() on a constructed, ready cluster returns, makes exactly
\* one build-tool call, with target `postflight`, leaves the cluster ready,
\* and changes neither the parameter set, the working directory path and the
\* logging flag nor what the role properties return.
C10_PostflightIdempotent ==
    [][(pc = "constructed" /\ ready /\ op' = "postflight")
       => /\ raised' = NoException
          /\ ready'
          /\ \E invocation \in BagToSet(invocations') :
                /\ invocations' = (invocation :> 1)
                /\ Target(invocation) = "postflight"
          /\ fields' = fields
          /\ Resolution' = Resolution]_vars

\* C10 witness: postflight() has returned on a ready cluster.
C10_Witness ==
    /\ op = "postflight"
    /\ raised = NoException
    /\ ready

\* The KEY=VALUE arguments of a parameter set, in its order.
KeyValues(variables) ==
    [i \in 1..Len(variables) |-> variables[i][1] \o "=" \o variables[i][2]]

LifecycleCalls == {"__init__", "postflight", "destroy"}

\* C11: once construction is past staging, no step changes the parameter
\* set, the working directory path or the logging flag, and every build-tool
\* call of a lifecycle action is `make`, the KEY=VALUE list of that parameter
\* set, and one of the three targets, run in that working directory with
\* that logging flag.
C11_ParameterSetImmutable ==
    [][/\ pc # "init" => fields' = fields
       /\ op' \in LifecycleCalls =>
            \A invocation \in BagToSet(invocations') :
                /\ Target(invocation) \in {"all", "postflight", "clean"}
                /\ invocation.args =
                       <<"make">> \o KeyValues(_variables') \o
                       <<Target(invocation)>>
                /\ invocation.cwd = PathStr(_path')
                /\ invocation.log_output_live = log_output_live']_vars

\* C11 witness: a constructed instance with the optional parameters set has
\* made its destroy call.
C11_Witness ==
    /\ op = "destroy"
    /\ HasKey(_variables, "EXTRA_GENCONF_CONFIG")
    /\ BagCardinality(invocations) = 1

\* C12 as stated: once destroy() has returned, a further postflight() or
\* destroy() makes no build-tool call and changes nothing (containers, disk,
\* readiness).
C12_DestroyedIsTerminal ==
    [][(destroyed /\ op' \in {"postflight", "destroy"})
       => /\ invocations' = EmptyBag
          /\ <<containers, disk, ready, destroyed>>' =
                 <<containers, disk, ready, destroyed>>]_vars

\* C16: run_as_root returns if and only if the ssh process exits 0, and
\* raises CalledProcessError otherwise; what it returns or raises has the
\* process's exit code, and with live logging an empty stderr and the
\* process's error text inside stdout, without it both streams as captured.
C16_RunAsRootResult ==
    (op = "run_as_root" /\ call.kind = "run_as_root") =>
        LET process == call.process
            result == IF raised = NoException THEN completed ELSE raised
        IN /\ (raised = NoException) <=> (process.returncode = 0)
           /\ raised # NoException =>
                /\ raised.type = "CalledProcessError"
                /\ raised.carries
                /\ completed = NoCompleted
           /\ result.returncode = process.returncode
           /\ IF call.log_output_live
              THEN /\ result.stderr = <<>>
                   /\ Len(result.stdout) =
                          Len(process.stdout) + Len(process.stderr)
                   /\ Contains(process.stdout, result.stdout)
                   /\ Contains(process.stderr, result.stdout)
              ELSE /\ result.stdout = process.stdout
                   /\ result.stderr = process.stderr

\* C16 witness: with live logging, an unknown command's error text came back
\* in the stdout of the exception.
C16_Witness ==
    /\ op = "run_as_root"
    /\ call.kind = "run_as_root"
    /\ call.log_output_live
    /\ call.process.returncode = 127
    /\ call.process.stderr # <<>>
    /\ raised.stdout = call.process.stderr

\* C17: when the block holding the cluster ends with an error of the caller's
\* and destroy_on_error is false, no build-tool call is made and the
\* containers, the disk, the readiness and the held nodes are as before; in
\* every other case exactly one call with target `clean` is made, and if it
\* succeeds the instance is destroyed and none of its containers remains.
C17_DestroyOnError ==
    [][call'.kind = "__exit__" =>
        IF call'.error /\ ~call'.destroy_on_error
        THEN /\ invocations' = EmptyBag
             /\ raised' = NoException
             /\ <<fields, containers, disk, ready, destroyed, nodes>>' =
                    <<fields, containers, disk, ready, destroyed, nodes>>
        ELSE /\ \E invocation \in BagToSet(invocations') :
                   /\ invocations' = (invocation :> 1)
                   /\ Target(invocation) = "clean"
             /\ raised' = NoException =>
                   /\ destroyed'
                   /\ ClusterNames \cap DOMAIN containers' = {}]_vars

\* C17 witness: the block ended without an error for a caller who had opted
\* out, and the cluster, healthy before, is destroyed.
C17_Witness ==
    /\ call.kind = "__exit__"
    /\ ~call.error
    /\ ~call.destroy_on_error
    /\ destroyed
    /\ raised = NoException
    /\ nodes # {}

\* C18: destroy() makes exactly one build-tool call, with target `clean`;
\* when that call fails destroy() raises its failure and leaves the disk as
\* it was, the working directory included; the working directory is removed
\* only when the call has succeeded, and it was there when the call ran.
C18_CleanBeforeRemoval ==
    [][op' = "destroy" =>
        /\ \E invocation \in BagToSet(invocations') :
              /\ invocations' = (invocation :> 1)
              /\ Target(invocation) = "clean"
        /\ raised' # NoException =>
              /\ disk' = disk
              /\ destroyed' = destroyed
        /\ failedRun'.returncode # 0 =>
              /\ raised' = CalledProcessError(failedRun')
              /\ DirExists(disk', _path)
        /\ raised' = NoException =>
              /\ DirExists(disk, _path)
              /\ disk' = RmTree(disk, _path)]_vars

\* C18 witness: `make clean` has failed in a staged working directory, which
\* is still there.
C18_Witness ==
    /\ op = "destroy"
    /\ raised.type = "CalledProcessError"
    /\ HasMakefile
    /\ DirExists(disk, _path)

\* C19: the only exceptions destroy() raises are those of the `clean` call
\* (the CalledProcessError of the failed process, or FileNotFoundError when
\* the process could not be started in a missing directory); a working
\* directory that could not be removed raises nothing.
C19_RemovalErrorsSuppressed ==
    op = "destroy" =>
        /\ raised.type \in {"None", "CalledProcessError", "FileNotFoundError"}
        /\ raised.type = "CalledProcessError" =>
              /\ failedRun.returncode # 0
              /\ raised = CalledProcessError(failedRun)
        /\ raised.type = "FileNotFoundError" => ~DirExists(disk, _path)
        /\ (destroyed /\ DirExists(disk, _path) /\ failedRun = NoCompleted)
              => raised = NoException

\* C19 witness: destroy() has returned although a file in the working
\* directory could not be removed.
C19_Witness ==
    /\ op = "destroy"
    /\ raised = NoException
    /\ DirExists(disk, _path)
    /\ \E f \in DOMAIN disk.files :
          IsUnder(f, _path) /\ disk.files[f].owner = "root"

\* C20: the staging step leaves the working directory on disk, also when it
\* fails, and no later step but a destroy() removes the directory or a file
\* in it, or changes its path.
C20_OnlyDestroyRemoves ==
    [][op' # "destroy" =>
        /\ pc = "init" => DirExists(disk', _path')
        /\ (pc # "init" /\ DirExists(disk, _path)) =>
              /\ _path' = _path
              /\ DirExists(disk', _path')
              /\ \A f \in DOMAIN disk.files :
                    IsUnder(f, _path) => f \in DOMAIN disk'.files]_vars

\* C20 witness: a staging step has failed on a destination outside /genconf
\* and the staged directory is on disk.
C20_Witness ==
    /\ pc = "raised"
    /\ raised.type = "ValueError"
    /\ DirExists(disk, _path)

\* The peers that are past the staging step.
Staged == {i \in Peers : peers[i].pc # "init"}

\* C13: two instances with different identifiers have different working
\* directories, no container name of one is a container name of the other,
\* and within an instance the names of different roles differ.
C13_DistinctPathsAndNames ==
    /\ \A i, j \in Staged : i # j =>
          /\ peers[i]._path # peers[j]._path
          /\ PeerNames(i) \cap PeerNames(j) = {}
    /\ \A i \in Staged :
          /\ PeerRoleNames(i, "MASTER_CTR", "MASTERS") \cap
                 PeerRoleNames(i, "AGENT_CTR", "AGENTS") = {}
          /\ PeerRoleNames(i, "MASTER_CTR", "MASTERS") \cap
                 PeerRoleNames(i, "PUBLIC_AGENT_CTR", "PUBLIC_AGENTS") = {}
          /\ PeerRoleNames(i, "AGENT_CTR", "AGENTS") \cap
                 PeerRoleNames(i, "PUBLIC_AGENT_CTR", "PUBLIC_AGENTS") = {}
          /\ Cardinality(PeerNames(i)) =
                 ParseInt(Lookup(peers[i]._variables, "MASTERS")) +
                 ParseInt(Lookup(peers[i]._variables, "AGENTS")) +
                 ParseInt(Lookup(peers[i]._variables, "PUBLIC_AGENTS"))

\* C13 witness: two default clusters are staged, each with a master, an
\* agent and a public agent.
C13_Witness ==
    /\ Staged = Peers
    /\ \A i \in Peers :
          /\ PeerRoleNames(i, "MASTER_CTR", "MASTERS") # {}
          /\ PeerRoleNames(i, "AGENT_CTR", "AGENTS") # {}
          /\ PeerRoleNames(i, "PUBLIC_AGENT_CTR", "PUBLIC_AGENTS") # {}

\* C14: when each peer loses fewer than 30 create calls to the holder of the
\* shared name, no construction raises and in the end both are constructed;
\* and a step of one peer changes neither the other's path and parameter
\* set nor a file under the other's working directory.
C14_BothCreated ==
    /\ [](\A i \in Peers : peers[i].pc # "raised")
    /\ <>[](\A i \in Peers : peers[i].pc = "constructed")
    /\ [][\A i, j \in Peers :
            (i # j /\ peers'[i] # peers[i] /\ peers[j].pc # "init") =>
                /\ peers'[j] = peers[j]
                /\ FilesUnder(disk', peers[j]._path) =
                       FilesUnder(disk, peers[j]._path)]_vars

\* C14 witness: both peers are constructed and one of them lost 29 create
\* calls to the other on the way.
C14_Witness ==
    /\ \A i \in Peers : peers[i].pc = "constructed"
    /\ \E i \in Peers : conflicts[i] = Tries - 1

\* C15 as stated: once the caller has dropped the handle of a streamed
\* command, the child process is eventually not running any more.
C15_NoLeakedProcess ==
    [](handle = "discarded" => <>(child.state # "running"))

\* Whether the container runtime answers a query for a name with a container
\* that has an address.
Answered(container_name) ==
    /\ container_name \in DOMAIN containers
    /\ containers[container_name] \in IPs

\* C21: a role property read with prefix P and count N has asked the
\* container runtime for at most N names, which are P1, P2, .. in increasing
\* order and each asked once; every turn of the read makes at most one
\* request, and a request that is not answered is the read's last; the read
\* returns only when N requests were made, and with N = 0 it returns the
\* empty set at once and has asked nothing.
C21_BoundedOrderedQueries ==
    /\ [](op \in RoleProperties =>
            LET names == ExpectedNames(op)
            IN /\ Len(queries) <= Len(names)
               /\ queries = SubSeq(names, 1, Len(queries))
               /\ \A i, j \in DOMAIN queries :
                     i < j => queries[i] # queries[j]
               /\ reading # NoReading =>
                     /\ raised = NoException
                     /\ Len(queries) >= 1
                     /\ Len(queries) < Len(names)
                     /\ Cardinality(reading.nodes) = Len(queries)
               /\ (reading = NoReading /\ raised = NoException) =>
                     Len(queries) = Len(names)
               /\ Len(names) = 0 =>
                     /\ queries = <<>>
                     /\ reading = NoReading
                     /\ raised = NoException
                     /\ nodes = {})
    /\ [][Turn =>
            /\ \/ queries' = AskedBefore
               \/ /\ Len(queries') = Len(AskedBefore) + 1
                  /\ SubSeq(queries', 1, Len(AskedBefore)) = AskedBefore
            /\ (queries' # <<>> /\ ~Answered(queries'[Len(queries')])) =>
                  /\ reading' = NoReading
                  /\ raised' # NoException
            /\ raised' # NoException =>
                  ~Answered(queries'[Len(queries')])]_vars
    /\ [][(reading # NoReading /\ ~Turn) => queries' = queries]_vars

\* C21 witness: the agents of a cluster without agents have been read, and
\* nothing was asked.
C21_Witness ==
    /\ op = "agents"
    /\ reading = NoReading
    /\ Lookup(_variables, "AGENTS") = "0"
    /\ queries = <<>>
    /\ raised = NoException
    /\ nodes = {}

\* Whether the disk d holds, under the working directory path, a copy of
\* each file of the checkout but its installer, and a copy of the installer
\* artifact.
BuildMaterialStaged(d, path) ==
    /\ DirExists(d, path)
    /\ \A f \in DOMAIN InitialDisk.files :
          (IsUnder(f, dcos_docker_path) /\
           f[Len(f)] # "dcos_generate_config.sh") =>
              LET copy == path \o RelativeTo(f, dcos_docker_path)
              IN /\ copy \in DOMAIN d.files
                 /\ d.files[copy].content = InitialDisk.files[f].content
    /\ path \o <<"dcos_generate_config.sh">> \in DOMAIN d.files
    /\ d.files[path \o <<"dcos_generate_config.sh">>].content =
           InitialDisk.files[generate_config_path].content

\* Whether d holds every file of files_to_copy_to_installer at its place
\* under the genconf directory of the working directory.
InstallerFilesStaged(d, path, items) ==
    \A i \in DOMAIN items :
        LET copy == path \o <<"genconf">> \o
                        RelativeTo(items[i][2], <<"genconf">>)
        IN /\ copy \in DOMAIN d.files
           /\ d.files[copy].content = InitialDisk.files[items[i][1]].content

\* Whether a parameter set has every parameter construction c asks for.
ParametersComplete(variables, c) ==
    /\ \A key \in {"DOCKER_STORAGEDRIVER", "MESOS_SYSTEMD_ENABLE_SUPPORT",
                   "MASTERS", "AGENTS", "PUBLIC_AGENTS", "MASTER_CTR",
                   "AGENT_CTR", "PUBLIC_AGENT_CTR"} : HasKey(variables, key)
    /\ Lookup(variables, "MASTERS") = IntStr(c.topology.masters)
    /\ Lookup(variables, "AGENTS") = IntStr(c.topology.agents)
    /\ Lookup(variables, "PUBLIC_AGENTS") = IntStr(c.topology.public_agents)
    /\ HasKey(variables, "EXTRA_GENCONF_CONFIG") <=>
           (c.options.extra_config # <<>>)
    /\ HasKey(variables, "MASTER_MOUNTS") <=> (c.options.custom_ca_key # {})

\* C22: when a construction makes its first build-tool call, the working
\* directory already holds the build material, the installer artifact and
\* every installer-destined file, and the call carries the complete
\* parameter set and the target `all`; a construction with a destination
\* outside /genconf raises ValueError, and one that raised ValueError has
\* made no build-tool call.
C22_StagingPrecedesCreation ==
    /\ [][(/\ call.kind = "__init__"
           /\ invocations = EmptyBag
           /\ invocations' # EmptyBag)
          => LET c == call.construction
             IN /\ BuildMaterialStaged(disk, _path)
                /\ InstallerFilesStaged(
                       disk, _path, c.options.files_to_copy_to_installer)
                /\ ParametersComplete(_variables, c)
                /\ \E invocation \in BagToSet(invocations') :
                      /\ invocations' = (invocation :> 1)
                      /\ invocation.args =
                             <<"make">> \o KeyValues(_variables) \o <<"all">>
                      /\ invocation.cwd = PathStr(_path)]_vars
    /\ [](call.kind = "__init__" =>
            LET items ==
                    call.construction.options.files_to_copy_to_installer
            IN (\E i \in DOMAIN items : ~IsUnder(items[i][2], <<"genconf">>))
                   <=> (pc = "raised" /\ raised.type = "ValueError"))
    /\ []((op = "__init__" /\ raised.type = "ValueError") =>
             /\ pc = "raised"
             /\ invocations = EmptyBag)

\* C22 witness: a construction with a file for /genconf has made its first
\* create call, and the file is in the genconf directory of its working
\* directory.
C22_Witness ==
    /\ op = "__init__"
    /\ BagCardinality(invocations) = 1
    /\ _path \o <<"genconf", "config.yaml">> \in DOMAIN disk.files
    /\ disk.files[_path \o <<"genconf", "config.yaml">>].content = "host file"

\* C23: the run_subprocess call of a run_as_root has the live-logging mode
\* of that call's own argument, off when the argument is left out, whatever
\* the flag of the cluster instance is; and every build-tool call of the
\* instance has the instance's flag.
C23_LiveLoggingPerCall ==
    /\ (op = "run_as_root" /\ call.kind = "run_as_root") =>
          /\ call.log_output_live = LiveArgument(call.given)
          /\ call.given = <<>> => ~call.log_output_live
          /\ \A invocation \in BagToSet(invocations) :
                invocation.log_output_live = call.log_output_live
          /\ BagCardinality(invocations) = 1
    /\ op \in LifecycleCalls \cup {"__exit__"} =>
          \A invocation \in BagToSet(invocations) :
              invocation.log_output_live = log_output_live

\* C23 witness: on a node of a cluster constructed with live logging, a
\* command was run without the argument, and its process was run unlogged.
C23_Witness ==
    /\ log_output_live
    /\ op = "run_as_root"
    /\ call.kind = "run_as_root"
    /\ call.given = <<>>
    /\ \E invocation \in BagToSet(invocations) :
          ~invocation.log_output_live

\* The eleven leading elements of every composed command for a node.
SshPrefix(self) ==
    <<"ssh", "-q", "-o", "StrictHostKeyChecking=no",
      "-i", PathStr(self._ssh_key_path), "-l", "root",
      "-o", "PreferredAuthentications=publickey", self.ip_address>>

\* C24: the list compose_ssh_command returns for a node, args and env is the
\* node's ssh prefix, then for each env entry in order `export KEY='VALUE'`
\* and `&&`, then args as its last elements; the call starts no process and
\* leaves the node, args and env as they were.
C24_ComposeSshCommand ==
    child.args # <<>> =>
        LET self == child.given.self
            args == child.given.args
            env == child.given.env
            ssh_args == child.args
            n == Len(env)
        IN /\ Len(ssh_args) = 11 + 2 * n + Len(args)
           /\ SubSeq(ssh_args, 1, 11) = SshPrefix(self)
           /\ \A i \in 1..n :
                /\ ssh_args[11 + 2 * i - 1] =
                       "export " \o env[i][1] \o "='" \o env[i][2] \o "'"
                /\ ssh_args[11 + 2 * i] = "&&"
           /\ SubSeq(ssh_args, 11 + 2 * n + 1, Len(ssh_args)) = args
           /\ child.left = child.given
           /\ handle = "none" => child.state = "none"

\* C24 witness: a command has been composed, and not run, with two
\* environment entries.
C24_Witness ==
    /\ handle = "none"
    /\ child.state = "none"
    /\ child.args # <<>>
    /\ Len(child.given.env) = 2
    /\ child.given.args = Ending
====
